---- MODULE Spec2Model ----
(***************************************************************************)
(* Model of drive/client.py: the resumable branch of                      *)
(* Client._execute_file_request together with handle_progressless_iter    *)
(* (the transfer loop), and the query builder Client._make_querystring /  *)
(* _make_query_clause / _serialize_query_value.                           *)
(*                                                                         *)
(* Python values: None is the empty sequence << >>, any other value v of  *)
(* an optional variable is the one-element sequence <<v>>.  A Python str  *)
(* is a sequence of one-character strings.                                 *)
(***************************************************************************)
EXTENDS Integers, Sequences, FiniteSets, TLC

\* ------------------------------------------------------------------ bounds

\* Largest number of chunks of a transfer (the last chunk yields the response).
MaxChunks == 2

\* ------------------------------------------------------- program constants

\* client.py:24
NUM_RETRIES == 5

\* -------------------------------------------------------------- python bits

None == << >>

Some(v) == << v >>

\* Truth value of `if x:` for an optional object (progress, error): objects
\* without __bool__/__len__ are truthy, None is falsy.
Truthy(x) == x # None

\* ------------------------------------------------------ the transfer loop

VARIABLES
    pc,                 \* "awaiting" (about to call next_chunk), "sleeping"
                        \* (inside time.sleep), "returned", "raised"
    progressless_iters, \* local of _execute_file_request
    response,           \* local: None or Some(final response)
    progress,           \* local: None or Some(chunks acknowledged)
    error,              \* local: None or Some(exception caught)
    returnValue,        \* what the call returned, once pc = "returned"
    raisedError,        \* None or Some(exception that left the call)
    total,              \* chunks of this transfer (environment)
    chunksDone,         \* chunks acknowledged by the server (environment)
    requests,           \* observation: next_chunk calls made so far
    sleepLog,           \* observation: upper bound of every sleep, in order
    streak,             \* observation: consecutive retryable failures
    streakSleeps,       \* observation: sleeps since the last success
    progressUpdates,    \* observation: 'Upload n%' lines written so far
    finalUpdates,       \* observation: those written once the final
                        \* response was in hand
    lastLine            \* observation: None or Some(percent last written)

loopVars == << pc, progressless_iters, response, progress, error, returnValue,
               raisedError, total, chunksDone, requests, sleepLog, streak,
               streakSleeps, progressUpdates, finalUpdates, lastLine >>

\* The query builder's calls, below.
VARIABLES
    qcall,      \* the method under call, "none" when the query builder is idle
    qargs,      \* its arguments
    qresult     \* None, or Some([raised, value]) once it has ended

queryVars == << qcall, qargs, qresult >>

vars == << loopVars, queryVars >>

\* HTTP statuses next_chunk's HttpError may carry.
Statuses == {404, 499, 500, 503}

\* The final responses (a falsy but non-None body included).
Responses == {"{}", "{id: f1}"}

\* Exceptions next_chunk raises; `at` is the request that raised it, so that
\* two exceptions of two attempts differ.
HttpError(status, at) == [kind |-> "HttpError", status |-> status, at |-> at]

TransportError(kind, at) == [kind |-> kind, status |-> 0, at |-> at]

\* RETRYABLE_ERRORS, client.py:21
RETRYABLE_ERRORS == {"HttpLib2Error", "IOError"}

\* Caps of the observation counters; the loop itself never reaches them.
MaxRequests == (NUM_RETRIES + 1) * MaxChunks

\* Variants of the budget test: `>=` for `>`, a budget one too large, and a
\* test that never fires.
BudgetExceededEarly(iters) == iters >= NUM_RETRIES

BudgetExceededLate(iters) == iters > NUM_RETRIES + 1

BudgetExceededNever(iters) == FALSE

\* handle_progressless_iter, line 31: the budget test.
BudgetExceeded(iters) == iters > NUM_RETRIES

\* handle_progressless_iter, line 35: sleeptime = random() * 2**iters lies in
\* [0, 2**iters); the model keeps the upper bound.
SleepBound(iters) == 2 ^ iters

\* Variant of the status test: `<=` for `<`.
ReRaisedInclusive(status) == status <= 500

\* except HttpError, line 516: `if err.resp.status < 500: raise`
ReRaised(status) == status < 500

\* Variant of line 525: the counter is not reset.
AfterSuccessKept(iters) == iters

\* line 525: the counter after an iteration without error.
AfterSuccess(iters) == 0

\* line 522: the counter after an iteration with an error.
AfterFailure(iters) == iters + 1

\* print_with_carriage_return('Upload %d%%' % (100 * progress.progress()))
Percent(done) == (100 * done) \div total

\* Lines 511-513: 'Upload n%' lines the loop body writes for progress p.
InLoopUpdates(p) == IF Truthy(p) THEN 1 ELSE 0

\* Variant of lines 527-529: nothing is written after the loop.
AfterLoopUpdatesNone(p) == 0

\* Lines 527-529: 'Upload n%' lines written after the loop for progress p.
AfterLoopUpdates(p) == IF Truthy(p) THEN 1 ELSE 0

\* The implicit return of the resumable branch: the function body ends after
\* the print of lines 527-529 with no return statement.
ResumableReturn(resp) == None

LoopInit ==
    /\ pc = "awaiting"
    /\ progressless_iters = 0
    /\ response = None
    /\ progress = None
    /\ error = None
    /\ returnValue = None
    /\ raisedError = None
    /\ total \in 1..MaxChunks
    /\ chunksDone = 0
    /\ requests = 0
    /\ sleepLog = << >>
    /\ streak = 0
    /\ streakSleeps = 0
    /\ progressUpdates = 0
    /\ finalUpdates = 0
    /\ lastLine = None

\* Lines 507-513 and 521-525: next_chunk acknowledges a chunk that is not the
\* last one and returns (p, None); p may be None.
NextChunkProgress(p) ==
    /\ pc = "awaiting"
    /\ requests < MaxRequests
    /\ chunksDone + 1 < total
    /\ chunksDone' = chunksDone + 1
    /\ requests' = requests + 1
    /\ error' = None
    /\ progress' = p
    /\ response' = None
    /\ progressUpdates' = progressUpdates + InLoopUpdates(p)
    /\ lastLine' = IF InLoopUpdates(p) > 0 THEN Some(Percent(p[1])) ELSE lastLine
    /\ progressless_iters' = AfterSuccess(progressless_iters)
    /\ streak' = 0
    /\ streakSleeps' = 0
    /\ UNCHANGED << pc, returnValue, raisedError, total, sleepLog, finalUpdates >>
    /\ UNCHANGED queryVars

\* Lines 507-513, 521-529: next_chunk acknowledges the last chunk and returns
\* (p, r) with r not None; the loop ends, the progress is written once more
\* and the function falls off its end.
NextChunkFinal(p, r) ==
    /\ pc = "awaiting"
    /\ requests < MaxRequests
    /\ chunksDone + 1 = total
    /\ chunksDone' = chunksDone + 1
    /\ requests' = requests + 1
    /\ error' = None
    /\ progress' = p
    /\ response' = Some(r)
    /\ LET n == InLoopUpdates(p) + AfterLoopUpdates(p) IN
       /\ progressUpdates' = progressUpdates + n
       /\ finalUpdates' = finalUpdates + n
       /\ lastLine' = IF n > 0 THEN Some(Percent(p[1])) ELSE lastLine
    /\ progressless_iters' = AfterSuccess(progressless_iters)
    /\ streak' = 0
    /\ streakSleeps' = 0
    /\ pc' = "returned"
    /\ returnValue' = ResumableReturn(r)
    /\ UNCHANGED << raisedError, total, sleepLog >>
    /\ UNCHANGED queryVars

\* Lines 521-523 and handle_progressless_iter: the iteration caught `err`.
HandleError(err) ==
    /\ error' = Some(err)
    /\ progressless_iters' = AfterFailure(progressless_iters)
    /\ streak' = streak + 1
    /\ IF BudgetExceeded(progressless_iters')
       THEN /\ pc' = "raised"
            /\ raisedError' = Some(err)
            /\ UNCHANGED << sleepLog, streakSleeps >>
       ELSE /\ pc' = "sleeping"
            /\ sleepLog' = Append(sleepLog, SleepBound(progressless_iters'))
            /\ streakSleeps' = streakSleeps + 1
            /\ UNCHANGED raisedError

\* Lines 514-517: next_chunk raises HttpError.
NextChunkHttpError(status) ==
    /\ pc = "awaiting"
    /\ requests < MaxRequests
    /\ requests' = requests + 1
    /\ LET err == HttpError(status, requests + 1) IN
       IF ReRaised(status)
       THEN /\ error' = Some(err)
            /\ pc' = "raised"
            /\ raisedError' = Some(err)
            /\ UNCHANGED << progressless_iters, sleepLog, streak, streakSleeps >>
       ELSE HandleError(err)
    /\ UNCHANGED << response, progress, returnValue, total, chunksDone,
                    progressUpdates, finalUpdates, lastLine >>
    /\ UNCHANGED queryVars

\* Lines 518-519: next_chunk raises one of RETRYABLE_ERRORS.
NextChunkRetryable(kind) ==
    /\ pc = "awaiting"
    /\ requests < MaxRequests
    /\ requests' = requests + 1
    /\ HandleError(TransportError(kind, requests + 1))
    /\ UNCHANGED << response, progress, returnValue, total, chunksDone,
                    progressUpdates, finalUpdates, lastLine >>
    /\ UNCHANGED queryVars

\* time.sleep returns (line 38); the loop tests `response is None` (line 507)
\* and starts the next iteration with error = None (line 508).
SleepEnds ==
    /\ pc = "sleeping"
    /\ pc' = "awaiting"
    /\ error' = None
    /\ UNCHANGED << progressless_iters, response, progress, returnValue,
                    raisedError, total, chunksDone, requests, sleepLog, streak,
                    streakSleeps, progressUpdates, finalUpdates, lastLine >>
    /\ UNCHANGED queryVars

\* What next_chunk may report as progress after acknowledging chunk n.
ProgressOf(n) == {None, Some(n)}

LoopNext ==
    \/ \E p \in ProgressOf(chunksDone + 1) : NextChunkProgress(p)
    \/ \E p \in ProgressOf(chunksDone + 1), r \in Responses : NextChunkFinal(p, r)
    \/ \E s \in Statuses : NextChunkHttpError(s)
    \/ \E k \in RETRYABLE_ERRORS : NextChunkRetryable(k)
    \/ SleepEnds

\* ------------------------------------------------------- the query builder

\* Longest string value drawn as an input.
MaxStrLen == 3

\* Longest clause list drawn as an input.
MaxClauses == 2

\* Characters of the drawn string values: a letter, the quote, the backslash.
Chars == {"a", "'", "\\"}

StringsUpTo(n) == UNION {[1..k -> Chars] : k \in 0..n}

\* Python values a clause may carry: bool, str, int.
BoolValue(b) == [type |-> "bool", b |-> b, s |-> << >>, n |-> 0]

StrValue(s) == [type |-> "str", b |-> FALSE, s |-> s, n |-> 0]

IntValue(n) == [type |-> "int", b |-> FALSE, s |-> << >>, n |-> n]

DigitChar == << "0", "1", "2", "3", "4", "5", "6", "7", "8", "9" >>

\* str(n) of a non-negative int.
RECURSIVE Digits(_)
Digits(n) ==
    IF n < 10
    THEN << DigitChar[n + 1] >>
    ELSE Digits(n \div 10) \o << DigitChar[(n % 10) + 1] >>

\* str(value), line 574, of a value that is not a bool.
Str(value) ==
    IF value.type = "str" THEN value.s
    ELSE IF value.n < 0 THEN << "-" >> \o Digits(-value.n)
    ELSE Digits(value.n)

\* s.replace(old, new) for a one-character old.
RECURSIVE Replace(_, _, _)
Replace(s, old, new) ==
    IF s = << >>
    THEN << >>
    ELSE (IF Head(s) = old THEN new ELSE << Head(s) >>) \o Replace(Tail(s), old, new)

\* Variant of _serialize_query_value: the two replace calls swapped.
SerializeQueryValueQuotesFirst(value) ==
    IF value.type = "bool"
    THEN (IF value.b THEN << "t", "r", "u", "e" >> ELSE << "f", "a", "l", "s", "e" >>)
    ELSE << "'" >>
         \o Replace(Replace(Str(value), "'", << "\\", "'" >>), "\\", << "\\", "\\" >>)
         \o << "'" >>

\* _serialize_query_value, lines 565-574.
SerializeQueryValue(value) ==
    IF value.type = "bool"
    THEN (IF value.b THEN << "t", "r", "u", "e" >> ELSE << "f", "a", "l", "s", "e" >>)
    ELSE << "'" >>
         \o Replace(Replace(Str(value), "\\", << "\\", "\\" >>), "'", << "\\", "'" >>)
         \o << "'" >>

\* "%s %s %s" % (a, b, c)
Format3(a, b, c) == a \o << " " >> \o b \o << " " >> \o c

OpIn == << "i", "n" >>

\* Variant of _make_query_clause: `in` rendered like the other operators.
MakeQueryClauseInNotReversed(field, op, value, negation) ==
    LET svalue == SerializeQueryValue(value)
        p == Format3(field, op, svalue)
    IN  IF negation THEN << "n", "o", "t", " " >> \o p ELSE p

\* Variant of _make_query_clause: the negation flag is ignored.
MakeQueryClauseNoNegation(field, op, value, negation) ==
    LET svalue == SerializeQueryValue(value)
    IN  IF op = OpIn THEN Format3(svalue, op, field) ELSE Format3(field, op, svalue)

\* _make_query_clause, lines 547-563.
MakeQueryClause(field, op, value, negation) ==
    LET svalue == SerializeQueryValue(value)
        p == IF op = OpIn THEN Format3(svalue, op, field) ELSE Format3(field, op, svalue)
    IN  IF negation THEN << "n", "o", "t", " " >> \o p ELSE p

\* sep.join(parts), line 545.
RECURSIVE StrJoin(_, _)
StrJoin(sep, parts) ==
    IF Len(parts) = 0 THEN << >>
    ELSE IF Len(parts) = 1 THEN parts[1]
    ELSE StrJoin(sep, SubSeq(parts, 1, Len(parts) - 1)) \o sep \o parts[Len(parts)]

Returned(v) == [raised |-> "", value |-> v]

Raised(e) == [raised |-> e, value |-> << >>]

\* _make_querystring, lines 531-545.  `for field, op, value in clauses`
\* unpacks each clause into exactly three names and raises ValueError on a
\* tuple of any other length; _make_query_clause is called without negation.
MakeQuerystring(clauses, join) ==
    IF \E i \in 1..Len(clauses) : Len(clauses[i]) # 3
    THEN Raised("ValueError")
    ELSE Returned(StrJoin(<< " " >> \o join \o << " " >>,
                          [i \in 1..Len(clauses) |->
                              MakeQueryClause(clauses[i][1], clauses[i][2],
                                              clauses[i][3], FALSE)]))

\* ---- inputs

FieldTrashed == << "t", "r", "a", "s", "h", "e", "d" >>

FieldName == << "n", "a", "m", "e" >>

FieldParents == << "p", "a", "r", "e", "n", "t", "s" >>

FieldStatus == << "s", "t", "a", "t", "u", "s" >>

OpEq == << "=" >>

OpContains == << "c", "o", "n", "t", "a", "i", "n", "s" >>

JoinAnd == << "a", "n", "d" >>

JoinOr == << "o", "r" >>

OBrien == StrValue(<< "O", "'", "B", "r", "i", "e", "n" >>)

ReportPdf == StrValue(<< "r", "e", "p", "o", "r", "t", ".", "p", "d", "f" >>)

DoneValue == StrValue(<< "d", "o", "n", "e" >>)

\* Values given to _serialize_query_value and _make_query_clause.
Values ==
    {BoolValue(b) : b \in BOOLEAN}
    \cup {StrValue(s) : s \in StringsUpTo(MaxStrLen)}
    \cup {IntValue(n) : n \in {0, 1, 42, -7}}
    \cup {OBrien, ReportPdf, DoneValue}

\* Clauses of the drawn clause lists: the tuple (field, op, value), and the
\* same with a fourth element, the negation flag.
ListValues == {BoolValue(FALSE), StrValue(<< "a", "'" >>)}

Clauses3 ==
    {<< f, o, v >> : f \in {FieldName, FieldParents},
                     o \in {OpEq, OpContains, OpIn}, v \in ListValues}

Clauses4 == {c \o << n >> : c \in Clauses3, n \in BOOLEAN}

\* The clause list of the example: trashed = false and name = 'report.pdf'.
ExampleClauses ==
    << << FieldTrashed, OpEq, BoolValue(FALSE) >>, << FieldName, OpEq, ReportPdf >> >>

ClauseLists ==
    UNION {[1..k -> Clauses3 \cup Clauses4] : k \in 0..MaxClauses}
    \cup {ExampleClauses}

NoArgs ==
    [clauses |-> << >>, join |-> << >>, field |-> << >>, op |-> << >>,
     value |-> BoolValue(FALSE), negation |-> FALSE]

QueryIdle ==
    /\ qcall = "none"
    /\ qargs = NoArgs
    /\ qresult = None

QueryInit ==
    /\ qresult = None
    /\ \/ /\ qcall = "_make_querystring"
          /\ \E cl \in ClauseLists, j \in {JoinAnd, JoinOr} :
                qargs = [NoArgs EXCEPT !.clauses = cl, !.join = j]
       \/ /\ qcall = "_make_query_clause"
          /\ \E f \in {FieldName, FieldStatus}, o \in {OpEq, OpContains, OpIn},
                v \in Values, n \in BOOLEAN :
                qargs = [NoArgs EXCEPT !.field = f, !.op = o, !.value = v,
                                       !.negation = n]
       \/ /\ qcall = "_serialize_query_value"
          /\ \E v \in Values : qargs = [NoArgs EXCEPT !.value = v]

\* A call of _make_querystring(clauses, join) runs to its end.
CallMakeQuerystring ==
    /\ qcall = "_make_querystring"
    /\ qresult = None
    /\ qresult' = Some(MakeQuerystring(qargs.clauses, qargs.join))
    /\ UNCHANGED << qcall, qargs >>
    /\ UNCHANGED loopVars

\* A call of _make_query_clause(field, op, value, negation) runs to its end.
CallMakeQueryClause ==
    /\ qcall = "_make_query_clause"
    /\ qresult = None
    /\ qresult' = Some(Returned(MakeQueryClause(qargs.field, qargs.op, qargs.value,
                                                qargs.negation)))
    /\ UNCHANGED << qcall, qargs >>
    /\ UNCHANGED loopVars

\* A call of _serialize_query_value(value) runs to its end.
CallSerializeQueryValue ==
    /\ qcall = "_serialize_query_value"
    /\ qresult = None
    /\ qresult' = Some(Returned(SerializeQueryValue(qargs.value)))
    /\ UNCHANGED << qcall, qargs >>
    /\ UNCHANGED loopVars

QueryNext ==
    \/ CallMakeQuerystring
    \/ CallMakeQueryClause
    \/ CallSerializeQueryValue

\* ------------------------------------------------------------ specifications

\* The transfer loop; the query builder is idle.
Init == LoopInit /\ QueryIdle

Next == LoopNext

Spec == Init /\ [][Next]_vars

\* The query builder; no transfer runs (a loop that has not been entered).
LoopIdle ==
    /\ pc = "idle"
    /\ progressless_iters = 0
    /\ response = None
    /\ progress = None
    /\ error = None
    /\ returnValue = None
    /\ raisedError = None
    /\ total = 1
    /\ chunksDone = 0
    /\ requests = 0
    /\ sleepLog = << >>
    /\ streak = 0
    /\ streakSleeps = 0
    /\ progressUpdates = 0
    /\ finalUpdates = 0
    /\ lastLine = None

QInit == LoopIdle /\ QueryInit

QNext == QueryNext

QuerySpec == QInit /\ [][QNext]_vars

\* Specification of the loop with the scheduling the code has: one thread runs
\* the loop, so a step that can be taken (time.sleep returning included) is
\* eventually taken.
LiveSpec == Init /\ [][Next]_vars /\ WF_vars(Next)

\* The observation caps never stop the loop.
CapsNotBinding == pc = "awaiting" => requests < MaxRequests

\* ------------------------------------------------------------------ claims

Done == pc \in {"returned", "raised"}

\* An error the loop retries: a transport or IO error, or a server error >= 500.
IsRetryable(e) ==
    \/ e.kind \in {"HttpLib2Error", "IOError"}
    \/ e.kind = "HttpError" /\ e.status >= 500

\* The step made a chunk request.
Requested == requests' = requests + 1

\* C1: when the loop reaches SUCCESS the value returned to the caller is the
\* final response next_chunk yielded.
C1_ReturnsFinalResponse == pc = "returned" => returnValue = response

\* C2: if every next_chunk call raises a retryable error, the loop makes 6
\* requests and 5 sleeps with upper bounds 2, 4, 8, 16, 32 and then raises the
\* error of the last attempt unmodified; before that, after k failures it has
\* slept k times with bounds 2^1 .. 2^k.
C2_AlwaysFailing ==
    (chunksDone = 0 /\ (raisedError # None => IsRetryable(raisedError[1]))) =>
        /\ requests <= 6
        /\ Len(sleepLog) <= 5
        /\ \A k \in 1..Len(sleepLog) : sleepLog[k] = 2 ^ k
        /\ pc = "sleeping" => Len(sleepLog) = requests
        /\ pc = "awaiting" => Len(sleepLog) = requests
        /\ pc = "raised" =>
              /\ requests = 6
              /\ sleepLog = << 2, 4, 8, 16, 32 >>
              /\ raisedError = error
              /\ raisedError[1].at = 6

C2_Witness ==
    /\ pc = "raised"
    /\ chunksDone = 0
    /\ raisedError[1].kind = "HttpLib2Error"
    /\ requests = 6
    /\ Len(sleepLog) = 5

\* The transition of a retryable failure out of a state: the counter goes up
\* by one, and either the budget is exhausted and the error is raised, or the
\* loop sleeps with the next bound.
C3_RetryTransition ==
    /\ progressless_iters' = progressless_iters + 1
    /\ IF progressless_iters + 1 > 5
       THEN pc' = "raised" /\ raisedError' = error' /\ sleepLog' = sleepLog
       ELSE /\ pc' = "sleeping"
            /\ raisedError' = None
            /\ sleepLog' = Append(sleepLog, 2 ^ (progressless_iters + 1))

\* C3: a ServerError is retried iff its status is >= 500: with a status < 500
\* it is re-raised at once and unmodified, whatever the counter, with no
\* increment, no sleep and no further request; with a status >= 500 the step
\* is the one a TransportError makes in the same state.
C3_ServerErrorRetriedIffGe500 ==
    [][ /\ (Requested /\ error' # None /\ error'[1].kind = "HttpError"
                /\ error'[1].status < 500) =>
              /\ pc' = "raised"
              /\ raisedError' = error'
              /\ error'[1].at = requests'
              /\ progressless_iters' = progressless_iters
              /\ sleepLog' = sleepLog
        /\ (Requested /\ error' # None /\ error'[1].kind = "HttpError"
                /\ error'[1].status >= 500) => C3_RetryTransition
        /\ (Requested /\ error' # None /\ error'[1].kind # "HttpError") =>
              C3_RetryTransition
        /\ pc = "raised" => (requests' = requests /\ pc' = "raised")
      ]_vars

C3_Witness ==
    /\ pc = "raised"
    /\ raisedError[1].kind = "HttpError"
    /\ raisedError[1].status = 404
    /\ progressless_iters = 3
    /\ requests = 4
    /\ Len(sleepLog) = 3

\* C4: the counter is reset by every successful next_chunk call and goes up by
\* one on every retryable failure, so it counts consecutive failures only; the
\* loop fails by budget exhaustion exactly at the 6th consecutive retryable
\* failure, and never otherwise unless a ServerError < 500 occurred.
C4_ConsecutiveBudget ==
    /\ [](/\ progressless_iters = streak
          /\ streak <= 6
          /\ (streak = 6) <=> (pc = "raised" /\ IsRetryable(raisedError[1]))
          /\ pc = "raised" =>
                \/ streak = 6
                \/ raisedError[1].kind = "HttpError" /\ raisedError[1].status < 500)
    /\ [][ /\ chunksDone' = chunksDone + 1 => progressless_iters' = 0
           /\ (Requested /\ chunksDone' = chunksDone /\ IsRetryable(error'[1])) =>
                 progressless_iters' = progressless_iters + 1 ]_vars

C4_Witness ==
    /\ pc = "returned"
    /\ total = 2
    /\ Len(sleepLog) = 10
    /\ progressless_iters = 0

\* C5 (as stated): over one whole call the total number of retries never
\* exceeds the budget of 5.
C5_TotalRetriesWithinBudget == Len(sleepLog) <= NUM_RETRIES

\* C5 (amended): the budget bounds the retries of one streak of consecutive
\* failures: between two successful chunks the loop never sleeps more than 5
\* times.
C5_StreakRetriesWithinBudget == streakSleeps <= 5

C5_Witness == streakSleeps = 5 /\ chunksDone = 1 /\ Len(sleepLog) = 10

\* C9 (as stated): on every transition to SUCCESS a final progress update is
\* emitted, whatever the progress value, a null progress included.
C9_FinalUpdateAlways == pc = "returned" => finalUpdates > 0

\* C9 (amended): on a transition to SUCCESS a final progress update is emitted
\* iff the progress that came with the final response is not null; it is then
\* written twice (in the loop body and after the loop) and shows 100%.
C9_FinalUpdateIffProgress ==
    pc = "returned" =>
        /\ progress = None => finalUpdates = 0
        /\ progress # None => (finalUpdates = 2 /\ lastLine = << 100 >>)

C9_Witness == pc = "returned" /\ progress # None /\ finalUpdates = 2

\* C10: with finitely many chunks and sleeps that end, every call terminates,
\* either by returning after a final response was received or by raising the
\* last error; it never returns without a final response.
C10_Terminates ==
    /\ <>Done
    /\ [](pc = "returned" => (response # None /\ raisedError = None))
    /\ [](pc = "raised" => (raisedError # None /\ raisedError = error
                             /\ raisedError[1].at = requests))
    /\ [][Done => UNCHANGED vars]_vars

C10_Witness == pc = "returned" /\ response # None /\ Len(sleepLog) = 10

\* C11: in every reachable state the retry counter is an integer in 0..6; a
\* backoff sleep is only taken with the counter in 1..5, so every sleep has
\* upper bound 2^counter <= 32; a chunk request is only issued with the
\* counter in 0..5.
C11_CounterRange ==
    /\ [](/\ progressless_iters \in 0..6
          /\ pc = "sleeping" =>
                /\ progressless_iters \in 1..5
                /\ sleepLog # << >>
                /\ sleepLog[Len(sleepLog)] = 2 ^ progressless_iters
          /\ \A k \in 1..Len(sleepLog) : sleepLog[k] \in {2, 4, 8, 16, 32}
          /\ pc = "awaiting" => progressless_iters \in 0..5
          /\ progressless_iters = 6 => pc = "raised")
    /\ [][ /\ Requested => progressless_iters \in 0..5
           /\ Len(sleepLog') > Len(sleepLog) =>
                 /\ pc' = "sleeping"
                 /\ progressless_iters' \in 1..5
                 /\ sleepLog' = Append(sleepLog, 2 ^ progressless_iters') ]_vars

C11_Witness ==
    /\ pc = "sleeping"
    /\ chunksDone = 1
    /\ progressless_iters = 5
    /\ sleepLog = << 2, 4, 8, 16, 32 >>

\* ------------------------------------------------- claims: query builder

QueryDone(fn) == qcall = fn /\ qresult # None

\* The rendering of one (field, op, value) clause, as the claims state it.
ClauseRendering(c) ==
    LET sv == SerializeQueryValue(c[3]) IN
    IF c[2] = << "i", "n" >>
    THEN sv \o << " ", "i", "n", " " >> \o c[1]
    ELSE c[1] \o << " " >> \o c[2] \o << " " >> \o sv

\* The rendering of a clause that may carry a negation flag as 4th element.
FlaggedRendering(c) ==
    IF Len(c) = 4 /\ c[4] THEN << "n", "o", "t", " " >> \o ClauseRendering(c) ELSE ClauseRendering(c)

\* r[1] sep r[2] sep ... r[n], built from the head.
RECURSIVE Separated(_, _)
Separated(sep, r) ==
    IF r = << >> THEN << >>
    ELSE IF Len(r) = 1 THEN r[1]
    ELSE r[1] \o sep \o Separated(sep, Tail(r))

Separator(j) == << " " >> \o j \o << " " >>

\* C6 (as stated): a clause list whose clauses carry the negation flag is
\* accepted by _make_querystring, and each clause whose flag is set is
\* rendered as its un-negated rendering prefixed with 'not '.
C6_FlaggedListAccepted ==
    (QueryDone("_make_querystring")
        /\ \E i \in 1..Len(qargs.clauses) : Len(qargs.clauses[i]) = 4) =>
        /\ qresult[1].raised = ""
        /\ qresult[1].value =
              Separated(Separator(qargs.join),
                        [i \in 1..Len(qargs.clauses) |->
                            FlaggedRendering(qargs.clauses[i])])

\* C6 (amended): _make_query_clause called with negation set renders the
\* un-negated rendering prefixed with 'not ' ((status, =, "done") gives
\* not status = 'done') and renders no prefix with it unset;
\* _make_querystring takes (field, op, value) clauses only, renders them with
\* no prefix, and raises ValueError on a list with a clause that carries the
\* flag.
C6_NegationOnlyInClause ==
    /\ QueryDone("_make_query_clause") =>
          LET c == << qargs.field, qargs.op, qargs.value >> IN
          /\ qresult[1].raised = ""
          /\ qargs.negation => qresult[1].value = << "n", "o", "t", " " >> \o ClauseRendering(c)
          /\ ~qargs.negation => qresult[1].value = ClauseRendering(c)
          /\ (qargs.field = FieldStatus /\ qargs.op = OpEq /\ qargs.value = DoneValue
                /\ qargs.negation) =>
                qresult[1].value = << "n", "o", "t", " ", "s", "t", "a", "t", "u", "s", " ", "=", " ", "'", "d", "o", "n", "e", "'" >>
    /\ QueryDone("_make_querystring") =>
          IF \E i \in 1..Len(qargs.clauses) : Len(qargs.clauses[i]) # 3
          THEN qresult[1] = [raised |-> "ValueError", value |-> << >>]
          ELSE /\ qresult[1].raised = ""
               /\ qresult[1].value =
                     Separated(Separator(qargs.join),
                               [i \in 1..Len(qargs.clauses) |->
                                   ClauseRendering(qargs.clauses[i])])

C6_Witness ==
    /\ QueryDone("_make_query_clause")
    /\ qargs.field = FieldStatus
    /\ qargs.op = OpEq
    /\ qargs.value = DoneValue
    /\ qargs.negation
    /\ qresult[1].value = << "n", "o", "t", " ", "s", "t", "a", "t", "u", "s", " ", "=", " ", "'", "d", "o", "n", "e", "'" >>

\* Where the i-th rendering starts in the output (0-based offset).
RECURSIVE RenderingOffset(_, _, _)
RenderingOffset(cl, sep, i) ==
    IF i = 1 THEN 0
    ELSE RenderingOffset(cl, sep, i - 1) + Len(ClauseRendering(cl[i - 1])) + Len(sep)

\* C7: for every list of (field, op, value) clauses and every joiner j the
\* output is the clause renderings in input order separated by ' j ', an `in`
\* clause rendering as '<value> in <field>' and any other as
\* '<field> <op> <value>'; the empty list gives the empty string and a
\* one-clause list the clause alone; the example list gives
\* trashed = false and name = 'report.pdf'.
C7_QuerystringFormat ==
    (QueryDone("_make_querystring")
        /\ \A i \in 1..Len(qargs.clauses) : Len(qargs.clauses[i]) = 3) =>
        LET cl == qargs.clauses
            n == Len(cl)
            sep == Separator(qargs.join)
            out == qresult[1].value
            off(i) == RenderingOffset(cl, sep, i)
            len(i) == Len(ClauseRendering(cl[i]))
        IN  /\ qresult[1].raised = ""
            /\ n = 0 => out = << >>
            /\ n = 1 => out = ClauseRendering(cl[1])
            /\ n > 0 => Len(out) = off(n) + len(n)
            /\ \A i \in 1..n :
                  SubSeq(out, off(i) + 1, off(i) + len(i)) = ClauseRendering(cl[i])
            /\ \A i \in 1..(n - 1) :
                  SubSeq(out, off(i) + len(i) + 1, off(i + 1)) = sep
            /\ (cl = ExampleClauses /\ qargs.join = JoinAnd) =>
                  out = << "t", "r", "a", "s", "h", "e", "d", " ", "=", " ", "f", "a", "l", "s", "e", " ", "a", "n", "d", " ", "n", "a", "m", "e", " ", "=", " ", "'", "r", "e", "p", "o", "r", "t", ".", "p", "d", "f", "'" >>

C7_Witness ==
    /\ QueryDone("_make_querystring")
    /\ qargs.clauses = << << FieldName, OpEq, StrValue(<< "a", "'" >>) >>,
                          << FieldParents, OpIn, StrValue(<< "a", "'" >>) >> >>
    /\ qargs.join = JoinOr
    /\ qresult[1].value = << "n", "a", "m", "e", " ", "=", " ", "'", "a", "\\", "'", "'", " ", "o", "r", " ", "'", "a", "\\", "'", "'", " ", "i", "n", " ", "p", "a", "r", "e", "n", "t", "s" >>

EscapedChar(c) ==
    IF c = "\\" THEN << "\\", "\\" >>
    ELSE IF c = "'" THEN << "\\", "'" >>
    ELSE << c >>

RECURSIVE Escaped(_)
Escaped(s) == IF s = << >> THEN << >> ELSE EscapedChar(Head(s)) \o Escaped(Tail(s))

\* Reading an escaped string back: a backslash quotes the character after it.
RECURSIVE Unescaped(_)
Unescaped(s) ==
    IF s = << >> THEN << >>
    ELSE IF Head(s) = "\\" /\ Len(s) >= 2
         THEN << s[2] >> \o Unescaped(SubSeq(s, 3, Len(s)))
         ELSE << Head(s) >> \o Unescaped(Tail(s))

Count(s, c) == Cardinality({i \in DOMAIN s : s[i] = c})

\* C8: a boolean renders as the bare token true or false; any other value is
\* stringified, each backslash doubled, then each quote preceded by one
\* backslash, and the result wrapped in single quotes: every input quote gets
\* exactly one added backslash, every input backslash is doubled exactly once,
\* and O'Brien gives 'O\'Brien'.
C8_Serialization ==
    QueryDone("_serialize_query_value") =>
        LET v == qargs.value
            out == qresult[1].value
            body == SubSeq(out, 2, Len(out) - 1)
        IN  /\ qresult[1].raised = ""
            /\ v = BoolValue(TRUE) => out = << "t", "r", "u", "e" >>
            /\ v = BoolValue(FALSE) => out = << "f", "a", "l", "s", "e" >>
            /\ v = IntValue(1) => out = << "'", "1", "'" >>
            /\ v = IntValue(42) => out = << "'", "4", "2", "'" >>
            /\ v = IntValue(-7) => out = << "'", "-", "7", "'" >>
            /\ v = OBrien => out = << "'", "O", "\\", "'", "B", "r", "i", "e", "n", "'" >>
            /\ v.type = "str" =>
                  /\ Head(out) = "'"
                  /\ out[Len(out)] = "'"
                  /\ body = Escaped(v.s)
                  /\ Unescaped(body) = v.s
                  /\ Count(body, "'") = Count(v.s, "'")
                  /\ Count(body, "\\") = 2 * Count(v.s, "\\") + Count(v.s, "'")
                  /\ Len(body) = Len(v.s) + Count(v.s, "\\") + Count(v.s, "'")
                  /\ \A i \in DOMAIN body :
                        body[i] = "'" => (i > 1 /\ body[i - 1] = "\\")

C8_Witness ==
    /\ QueryDone("_serialize_query_value")
    /\ qargs.value = StrValue(<< "\\", "'", "a" >>)
    /\ qresult[1].value = << "'", "\\", "\\", "\\", "'", "a", "'" >>

====
